---- MODULE Spec2Model ----
(***************************************************************************)
(* AIPDFLab (src/src/App.jsx): a React component holding four pieces of    *)
(* state (files, processing, message, resultUrl) and three asynchronous    *)
(* handlers (mergePdfs, removePagesFromPdf, compressPdf) over pdf-lib.     *)
(*                                                                         *)
(* JavaScript runs one continuation at a time: every action below is the   *)
(* synchronous code between two awaits of a handler (or a whole            *)
(* synchronous handler).  An invocation in flight is an entry of ops; its  *)
(* pc names the await it is suspended at.  The closure of an invocation    *)
(* binds `files` to the array of the render it was created in, which is    *)
(* the field ops[o].files.                                                 *)
(*                                                                         *)
(* A page is <<name of its source file, 0-based index in that file>>, a    *)
(* document is the sequence of its pages.  pdf-lib's load, copyPages and   *)
(* save are taken as the black box the handlers use them as: load yields   *)
(* the file's pages in order, copyPages(src, idx) the pages of src at idx  *)
(* in the order of idx, save the pages of the document it is called on.    *)
(***************************************************************************)
EXTENDS Integers, Sequences, FiniteSets

\* ------------------------------------------------------------- bounds
MaxOps == 2
MaxFiles == 2
MaxSelect == 2
MaxPages == 3
MaxRemove == 2

\* ------------------------------------------------- program constants
DemoPage == 2
DefaultQuality == 60
OutOfRangePage == 99

PdfType == "application/pdf"

OpIds == 1..MaxOps

\* The files a user can pick: two PDFs and one file that is not a PDF.
FileUniverse ==
  { [name |-> "a", type |-> PdfType, pages |-> 3],
    [name |-> "b", type |-> PdfType, pages |-> 1],
    [name |-> "n", type |-> "text/plain", pages |-> 1] }

\* quality, in hundredths: the default 0.6, and the ends of its range.
Qualities == {0, DefaultQuality, 100}

\* The arguments of a direct call: files named by position with 0..MaxPages pages
\* each, and page numbers in and out of every such file's range.
Names == <<"a", "b", "c", "d">>

CallFile(j, n) == [name |-> Names[j], type |-> PdfType, pages |-> n]

CallLists ==
  UNION { { [j \in 1..m |-> CallFile(j, c[j])] : c \in [1..m -> 0..MaxPages] } :
          m \in 1..MaxFiles }

PageNumbers == (0..(MaxPages + 1)) \cup {OutOfRangePage}

NoFile == [name |-> "", type |-> "", pages |-> 0]

NULL == [op |-> 0, pages |-> <<>>]

MsgEmpty == ""
MsgNeedOne == "Carica almeno 1 PDF."
MsgMerging == "Unione in corso..."
MsgMerged == "Unione completata. Scarica il file qui sotto."
MsgMergeError == "Errore durante l'unione: "
MsgRemoving == "Rimozione pagine in corso..."
MsgRemoved == "Pagine rimosse. Scarica il risultato qui sotto."
MsgRemoveError == "Errore: "
MsgCompressing == "Compressione in corso... questo puo richiedere qualche secondo."
MsgCompressed == "Compressione (fallback) completata. Per compressione migliore usare endpoint server-side con PDF.js."
MsgCompressError == "Errore durante la compressione: "

VARIABLES files, processing, message, resultUrl, ops

vars == <<files, processing, message, resultUrl, ops>>

\* ------------------------------------------------------ pure helpers

\* Sequences over S of length at most n.
SeqUpTo(S, n) == UNION { [1..m -> S] : m \in 0..n }

\* Array.prototype.includes
Includes(s, x) == \E j \in DOMAIN s : s[j] = x

\* chosen.filter((f) => f.type === "application/pdf")
IsPdf(f) == f.type = PdfType

\* Mutant: the type filter dropped.
AllChosen(chosen) == chosen

OnlyPdfs(chosen) == SelectSeq(chosen, IsPdf)

\* s.filter((_, i) => i !== index), index 0-based
WithoutIndex(s, index) ==
  [j \in 1..(Len(s) - (IF index + 1 \in DOMAIN s THEN 1 ELSE 0)) |->
     IF j < index + 1 THEN s[j] ELSE s[j + 1]]

\* PDFDocument.load(await file.arrayBuffer()): the pages of the file, in order.
Load(f) == [j \in 1..f.pages |-> <<f.name, j - 1>>]

\* doc.getPageIndices(): 0 .. getPageCount()-1
GetPageIndices(doc) == [j \in 1..Len(doc) |-> j - 1]

\* dst.copyPages(src, indices): the pages of src at indices, in that order.
CopyPages(src, indices) == [j \in 1..Len(indices) |-> src[indices[j] + 1]]

\* copied.forEach((p) => doc.addPage(p))
AddPages(doc, copied) == doc \o copied

\* The loop of removePagesFromPdf, from i upward:
\*   for (let i = 0; i < total; i++) if (!pagesToRemove.includes(i + 1)) toKeep.push(i)
RECURSIVE KeepLoop(_, _, _, _)
KeepLoop(i, total, pagesToRemove, toKeep) ==
  IF i < total
  THEN KeepLoop(i + 1, total, pagesToRemove,
                IF ~Includes(pagesToRemove, i + 1) THEN Append(toKeep, i) ELSE toKeep)
  ELSE toKeep

\* Mutant: the loop tests the 0-based index i instead of the page number i + 1.
RECURSIVE KeepLoopOffByOne(_, _, _, _)
KeepLoopOffByOne(i, total, pagesToRemove, toKeep) ==
  IF i < total
  THEN KeepLoopOffByOne(i + 1, total, pagesToRemove,
                        IF ~Includes(pagesToRemove, i) THEN Append(toKeep, i) ELSE toKeep)
  ELSE toKeep

ToKeepOffByOne(total, pagesToRemove) == KeepLoopOffByOne(0, total, pagesToRemove, <<>>)

ToKeep(total, pagesToRemove) == KeepLoop(0, total, pagesToRemove, <<>>)

\* Mutant: quality below 1 keeps only that share of the pages.
CompressIndicesLossy(src, quality) ==
  [j \in 1..((Len(src) * quality) \div 100) |-> j - 1]

\* The indices compressPdf hands to copyPages: src.getPageIndices(); quality is not read.
CompressIndices(src, quality) == GetPageIndices(src)

\* ------------------------------------------------------- invocations

NoOp ==
  [kind |-> "none", pc |-> "idle", files |-> <<>>, fileIndex |-> 0,
   pagesToRemove |-> <<>>, quality |-> 0, k |-> 0, file |-> NoFile,
   src |-> <<>>, toCopy |-> <<>>, doc |-> <<>>]

Ended(kind, pc) == [NoOp EXCEPT !.kind = kind, !.pc = pc]

Awaiting == {"import", "create", "arrayBuffer", "load", "copyPages", "save"}

InFlight(o) == ops[o].pc \in Awaiting

\* Mutant: the invocation reads the component's current list, not its closure's.
LiveFiles(o) == files

\* The `files` an invocation's closure reads.
OpFiles(o) == ops[o].files

\* The first unused invocation slot; invocations are numbered in start order.
FreeOp(o) ==
  /\ ops[o].pc = "idle"
  /\ \A p \in OpIds : p < o => ops[p].pc # "idle"

\* URL.createObjectURL(new Blob([bytes])): a fresh handle on the saved bytes.
CreateObjectURL(o, bytes) == [op |-> o, pages |-> bytes]

Init ==
  /\ files = <<>>
  /\ processing = FALSE
  /\ message = MsgEmpty
  /\ resultUrl = NULL
  /\ ops = [o \in OpIds |-> NoOp]

\* ------------------------------------------------- synchronous handlers

reset ==
  /\ files' = <<>>
  /\ resultUrl' = NULL
  /\ message' = MsgEmpty
  /\ UNCHANGED <<processing, ops>>

handleFilesSelected ==
  \E chosen \in SeqUpTo(FileUniverse, MaxSelect) :
    /\ Len(files) + Len(OnlyPdfs(chosen)) <= MaxFiles
    /\ files' = files \o OnlyPdfs(chosen)
    /\ UNCHANGED <<processing, message, resultUrl, ops>>

removeFile ==
  \E index \in 0..(Len(files) - 1) :
    /\ files' = WithoutIndex(files, index)
    /\ UNCHANGED <<processing, message, resultUrl, ops>>

\* ----------------------------------------------------------- mergePdfs

\* An invocation of mergePdfs suspended at its first await.
MergeStart(fs) == [NoOp EXCEPT !.kind = "merge", !.pc = "import", !.files = fs]

\* The button is disabled while processing or with no file (line 233).
mergePdfs ==
  /\ ~processing
  /\ Len(files) >= 1
  /\ \E o \in OpIds :
       /\ FreeOp(o)
       /\ IF Len(files) < 1
          THEN /\ message' = MsgNeedOne
               /\ UNCHANGED <<processing, ops>>
          ELSE /\ processing' = TRUE
               /\ message' = MsgMerging
               /\ ops' = [ops EXCEPT ![o] = MergeStart(files)]
  /\ UNCHANGED <<files, resultUrl>>

MergeImported(o) ==
  /\ ops[o].kind = "merge" /\ ops[o].pc = "import"
  /\ ops' = [ops EXCEPT ![o].pc = "create"]
  /\ UNCHANGED <<files, processing, message, resultUrl>>

\* The loop head of `for (const file of files)` at position k (1-based), or the save.
MergeNext(op, k, fs) ==
  IF k <= Len(fs)
  THEN [op EXCEPT !.k = k, !.file = fs[k], !.pc = "arrayBuffer"]
  ELSE [op EXCEPT !.k = k, !.file = NoFile, !.pc = "save"]

MergeCreated(o) ==
  /\ ops[o].kind = "merge" /\ ops[o].pc = "create"
  /\ ops' = [ops EXCEPT ![o] = MergeNext([ops[o] EXCEPT !.doc = <<>>], 1, OpFiles(o))]
  /\ UNCHANGED <<files, processing, message, resultUrl>>

MergeRead(o) ==
  /\ ops[o].kind = "merge" /\ ops[o].pc = "arrayBuffer"
  /\ ops' = [ops EXCEPT ![o].pc = "load"]
  /\ UNCHANGED <<files, processing, message, resultUrl>>

MergeLoaded(o) ==
  /\ ops[o].kind = "merge" /\ ops[o].pc = "load"
  /\ ops' = [ops EXCEPT ![o] =
               [ops[o] EXCEPT !.src = Load(ops[o].file),
                              !.toCopy = GetPageIndices(Load(ops[o].file)),
                              !.pc = "copyPages"]]
  /\ UNCHANGED <<files, processing, message, resultUrl>>

\* Mutant: the copied pages are put in front of the pages already merged.
MergeAddFront(mergedPdf, copiedPages) == copiedPages \o mergedPdf

MergeAdd(mergedPdf, copiedPages) == AddPages(mergedPdf, copiedPages)

MergeCopied(o) ==
  /\ ops[o].kind = "merge" /\ ops[o].pc = "copyPages"
  /\ ops' = [ops EXCEPT ![o] =
               MergeNext([ops[o] EXCEPT
                            !.doc = MergeAdd(ops[o].doc, CopyPages(ops[o].src, ops[o].toCopy)),
                            !.src = <<>>, !.toCopy = <<>>],
                         ops[o].k + 1, OpFiles(o))]
  /\ UNCHANGED <<files, processing, message, resultUrl>>

MergeSaved(o) ==
  /\ ops[o].kind = "merge" /\ ops[o].pc = "save"
  /\ resultUrl' = CreateObjectURL(o, ops[o].doc)
  /\ message' = MsgMerged
  /\ processing' = FALSE
  /\ ops' = [ops EXCEPT ![o] = Ended("merge", "success")]
  /\ UNCHANGED files

\* Mutant: the catch publishes what was assembled so far.
MergeFailedPartial(o) ==
  /\ ops[o].kind = "merge" /\ InFlight(o)
  /\ resultUrl' = CreateObjectURL(o, ops[o].doc)
  /\ message' = MsgMergeError
  /\ processing' = FALSE
  /\ ops' = [ops EXCEPT ![o] = Ended("merge", "failed")]
  /\ UNCHANGED files

MergeFailed(o) ==
  /\ ops[o].kind = "merge" /\ InFlight(o)
  /\ message' = MsgMergeError
  /\ processing' = FALSE
  /\ ops' = [ops EXCEPT ![o] = Ended("merge", "failed")]
  /\ UNCHANGED <<files, resultUrl>>

\* -------------------------------------------------- removePagesFromPdf

\* An invocation of removePagesFromPdf suspended at its first await.
RemoveStart(fs, fileIndex, pagesToRemove) ==
  [NoOp EXCEPT !.kind = "remove", !.pc = "import", !.files = fs,
               !.fileIndex = fileIndex, !.pagesToRemove = pagesToRemove]

\* removePagesFromPdf(fileIndex, pagesToRemove) up to its first await.
removePagesFromPdf(fileIndex, pagesToRemove) ==
  /\ fileIndex + 1 \in DOMAIN files
  /\ \E o \in OpIds :
       /\ FreeOp(o)
       /\ processing' = TRUE
       /\ message' = MsgRemoving
       /\ ops' = [ops EXCEPT ![o] = RemoveStart(files, fileIndex, pagesToRemove)]
  /\ UNCHANGED <<files, resultUrl>>

\* The per-file button: onClick={() => removePagesFromPdf(i, [2])}
RemovePageButton ==
  \E i \in 0..(Len(files) - 1) : removePagesFromPdf(i, <<DemoPage>>)

\* files[fileIndex].arrayBuffer(): a TypeError, caught, when files[fileIndex] is undefined.
\* This is the invocation's only read of files and fileIndex after its start; the
\* record drops them once they are read.
RemoveImported(o) ==
  /\ ops[o].kind = "remove" /\ ops[o].pc = "import"
  /\ IF ops[o].fileIndex + 1 \in DOMAIN OpFiles(o)
     THEN /\ ops' = [ops EXCEPT ![o] =
                       [ops[o] EXCEPT !.file = OpFiles(o)[ops[o].fileIndex + 1],
                                      !.files = <<>>, !.fileIndex = 0,
                                      !.pc = "arrayBuffer"]]
          /\ UNCHANGED <<processing, message>>
     ELSE /\ message' = MsgRemoveError
          /\ processing' = FALSE
          /\ ops' = [ops EXCEPT ![o] = Ended("remove", "failed")]
  /\ UNCHANGED <<files, resultUrl>>

RemoveRead(o) ==
  /\ ops[o].kind = "remove" /\ ops[o].pc = "arrayBuffer"
  /\ ops' = [ops EXCEPT ![o].pc = "load"]
  /\ UNCHANGED <<files, processing, message, resultUrl>>

RemoveLoaded(o) ==
  /\ ops[o].kind = "remove" /\ ops[o].pc = "load"
  /\ ops' = [ops EXCEPT ![o] = [ops[o] EXCEPT !.src = Load(ops[o].file), !.pc = "create"]]
  /\ UNCHANGED <<files, processing, message, resultUrl>>

\* const total = src.getPageCount(); the toKeep loop; then await dst.copyPages(src, toKeep)
RemoveCreated(o) ==
  /\ ops[o].kind = "remove" /\ ops[o].pc = "create"
  /\ ops' = [ops EXCEPT ![o] =
               [ops[o] EXCEPT !.doc = <<>>,
                              !.toCopy = ToKeep(Len(ops[o].src), ops[o].pagesToRemove),
                              !.pc = "copyPages"]]
  /\ UNCHANGED <<files, processing, message, resultUrl>>

RemoveCopied(o) ==
  /\ ops[o].kind = "remove" /\ ops[o].pc = "copyPages"
  /\ ops' = [ops EXCEPT ![o] =
               [ops[o] EXCEPT
                  !.doc = AddPages(ops[o].doc, CopyPages(ops[o].src, ops[o].toCopy)),
                  !.pc = "save"]]
  /\ UNCHANGED <<files, processing, message, resultUrl>>

\* Mutant: the success path leaves without the finally block.
RemoveSavedBusy(o) ==
  /\ ops[o].kind = "remove" /\ ops[o].pc = "save"
  /\ resultUrl' = CreateObjectURL(o, ops[o].doc)
  /\ message' = MsgRemoved
  /\ ops' = [ops EXCEPT ![o] = Ended("remove", "success")]
  /\ UNCHANGED <<files, processing>>

RemoveSaved(o) ==
  /\ ops[o].kind = "remove" /\ ops[o].pc = "save"
  /\ resultUrl' = CreateObjectURL(o, ops[o].doc)
  /\ message' = MsgRemoved
  /\ processing' = FALSE
  /\ ops' = [ops EXCEPT ![o] = Ended("remove", "success")]
  /\ UNCHANGED files

RemoveFailed(o) ==
  /\ ops[o].kind = "remove" /\ InFlight(o)
  /\ message' = MsgRemoveError
  /\ processing' = FALSE
  /\ ops' = [ops EXCEPT ![o] = Ended("remove", "failed")]
  /\ UNCHANGED <<files, resultUrl>>

\* --------------------------------------------------------- compressPdf

\* An invocation of compressPdf suspended at its first await.
CompressStart(fs, fileIndex, quality) ==
  [NoOp EXCEPT !.kind = "compress", !.pc = "import", !.files = fs,
               !.fileIndex = fileIndex, !.quality = quality]

\* compressPdf(fileIndex, quality) up to its first await.
compressPdf(fileIndex, quality) ==
  /\ fileIndex + 1 \in DOMAIN files
  /\ \E o \in OpIds :
       /\ FreeOp(o)
       /\ processing' = TRUE
       /\ message' = MsgCompressing
       /\ ops' = [ops EXCEPT ![o] = CompressStart(files, fileIndex, quality)]
  /\ UNCHANGED <<files, resultUrl>>

\* The per-file button: onClick={() => compressPdf(i, 0.6)}
CompressButton ==
  \E i \in 0..(Len(files) - 1) : compressPdf(i, DefaultQuality)

\* As in removePagesFromPdf: the only read of files[fileIndex], then dropped.
CompressImported(o) ==
  /\ ops[o].kind = "compress" /\ ops[o].pc = "import"
  /\ IF ops[o].fileIndex + 1 \in DOMAIN OpFiles(o)
     THEN /\ ops' = [ops EXCEPT ![o] =
                       [ops[o] EXCEPT !.file = OpFiles(o)[ops[o].fileIndex + 1],
                                      !.files = <<>>, !.fileIndex = 0,
                                      !.pc = "arrayBuffer"]]
          /\ UNCHANGED <<processing, message>>
     ELSE /\ message' = MsgCompressError
          /\ processing' = FALSE
          /\ ops' = [ops EXCEPT ![o] = Ended("compress", "failed")]
  /\ UNCHANGED <<files, resultUrl>>

CompressRead(o) ==
  /\ ops[o].kind = "compress" /\ ops[o].pc = "arrayBuffer"
  /\ ops' = [ops EXCEPT ![o].pc = "load"]
  /\ UNCHANGED <<files, processing, message, resultUrl>>

CompressLoaded(o) ==
  /\ ops[o].kind = "compress" /\ ops[o].pc = "load"
  /\ ops' = [ops EXCEPT ![o] = [ops[o] EXCEPT !.src = Load(ops[o].file), !.pc = "create"]]
  /\ UNCHANGED <<files, processing, message, resultUrl>>

\* const numPages = src.getPageCount(); then await outDoc.copyPages(src, src.getPageIndices())
CompressCreated(o) ==
  /\ ops[o].kind = "compress" /\ ops[o].pc = "create"
  /\ ops' = [ops EXCEPT ![o] =
               [ops[o] EXCEPT !.doc = <<>>,
                              !.toCopy = CompressIndices(ops[o].src, ops[o].quality),
                              !.pc = "copyPages"]]
  /\ UNCHANGED <<files, processing, message, resultUrl>>

CompressCopied(o) ==
  /\ ops[o].kind = "compress" /\ ops[o].pc = "copyPages"
  /\ ops' = [ops EXCEPT ![o] =
               [ops[o] EXCEPT
                  !.doc = AddPages(ops[o].doc, CopyPages(ops[o].src, ops[o].toCopy)),
                  !.pc = "save"]]
  /\ UNCHANGED <<files, processing, message, resultUrl>>

\* Mutant: a result is published only over the result of an earlier invocation.
CompressSavedIfNewer(o) ==
  /\ ops[o].kind = "compress" /\ ops[o].pc = "save"
  /\ resultUrl' = IF resultUrl.op < o THEN CreateObjectURL(o, ops[o].doc) ELSE resultUrl
  /\ message' = MsgCompressed
  /\ processing' = FALSE
  /\ ops' = [ops EXCEPT ![o] = Ended("compress", "success")]
  /\ UNCHANGED files

CompressSaved(o) ==
  /\ ops[o].kind = "compress" /\ ops[o].pc = "save"
  /\ resultUrl' = CreateObjectURL(o, ops[o].doc)
  /\ message' = MsgCompressed
  /\ processing' = FALSE
  /\ ops' = [ops EXCEPT ![o] = Ended("compress", "success")]
  /\ UNCHANGED files

CompressFailed(o) ==
  /\ ops[o].kind = "compress" /\ InFlight(o)
  /\ message' = MsgCompressError
  /\ processing' = FALSE
  /\ ops' = [ops EXCEPT ![o] = Ended("compress", "failed")]
  /\ UNCHANGED <<files, resultUrl>>

\* ------------------------------------------------------ specifications

\* A continuation of invocation o: one of its awaits resolves.
Resolve(o) ==
  \/ MergeImported(o) \/ MergeCreated(o) \/ MergeRead(o)
  \/ MergeLoaded(o) \/ MergeCopied(o) \/ MergeSaved(o)
  \/ RemoveImported(o) \/ RemoveRead(o) \/ RemoveLoaded(o)
  \/ RemoveCreated(o) \/ RemoveCopied(o) \/ RemoveSaved(o)
  \/ CompressImported(o) \/ CompressRead(o) \/ CompressLoaded(o)
  \/ CompressCreated(o) \/ CompressCopied(o) \/ CompressSaved(o)

\* A continuation of invocation o: one of its awaits rejects, and the catch runs.
Reject(o) == MergeFailed(o) \/ RemoveFailed(o) \/ CompressFailed(o)

Step(o) == Resolve(o) \/ Reject(o)

\* The events of the page.
Event ==
  \/ reset
  \/ handleFilesSelected
  \/ removeFile
  \/ mergePdfs
  \/ RemovePageButton
  \/ CompressButton

Next == Event \/ \E o \in OpIds : Step(o)

Spec == Init /\ [][Next]_vars

\* Every await of an invocation in flight eventually resolves or rejects, and the
\* event loop then runs its continuation.
LiveSpec == Spec /\ \A o \in OpIds : WF_vars(Step(o))

\* One direct call of a handler, with arguments from the bounded sets, run to its end.
OneCall(op, msg) ==
  /\ processing = TRUE
  /\ message = msg
  /\ ops = [o \in OpIds |-> IF o = 1 THEN op ELSE NoOp]

InitCalls ==
  \E fs \in CallLists :
    /\ files = fs
    /\ resultUrl = NULL
    /\ \/ OneCall(MergeStart(fs), MsgMerging)
       \/ \E i \in 0..(Len(fs) - 1), r \in SeqUpTo(PageNumbers, MaxRemove) :
            OneCall(RemoveStart(fs, i, r), MsgRemoving)
       \/ \E i \in 0..(Len(fs) - 1), q \in Qualities :
            OneCall(CompressStart(fs, i, q), MsgCompressing)

NextCalls == \E o \in OpIds : Step(o)

CallSpec == InitCalls /\ [][NextCalls]_vars

\* ---------------------------------------------------------- properties

\* The pages of the documents of fs, one document after the other.
RECURSIVE ConcatPages(_)
ConcatPages(fs) ==
  IF fs = <<>> THEN <<>> ELSE Load(Head(fs)) \o ConcatPages(Tail(fs))

RECURSIVE SumPages(_)
SumPages(fs) == IF fs = <<>> THEN 0 ELSE Head(fs).pages + SumPages(Tail(fs))

ElementsOf(s) == { s[j] : j \in DOMAIN s }

StrictlyIncreasing(s) == \A j, k \in DOMAIN s : j < k => s[j] < s[k]

\* The file an invocation of removePagesFromPdf or compressPdf was called on.
CalledOn(op) == IF op.pc = "import" THEN op.files[op.fileIndex + 1] ELSE op.file

\* The pages of f whose 1-based number is not in r, in order.
PagesWithout(f, r) ==
  SelectSeq(Load(f), LAMBDA pg : (pg[2] + 1) \notin ElementsOf(r))

\* What invocation op has to produce, from the arguments it was called with.
Expected(op) ==
  CASE op.kind = "merge" -> ConcatPages(op.files)
    [] op.kind = "remove" -> PagesWithout(CalledOn(op), op.pagesToRemove)
    [] op.kind = "compress" -> Load(CalledOn(op))
    [] OTHER -> <<>>

Succeeds(o) == ops[o].pc = "save" /\ ops'[o].pc = "success"

Fails(o) == InFlight(o) /\ ops'[o].pc = "failed"

Starts(o) == ops[o].pc = "idle" /\ ops'[o].pc # "idle"

SuccessMessage(kind) ==
  CASE kind = "merge" -> MsgMerged
    [] kind = "remove" -> MsgRemoved
    [] kind = "compress" -> MsgCompressed

ErrorMessage(kind) ==
  CASE kind = "merge" -> MsgMergeError
    [] kind = "remove" -> MsgRemoveError
    [] kind = "compress" -> MsgCompressError

\* C1: for N pages and removal list R, the keep-list of removePagesFromPdf is
\* strictly increasing, holds exactly the 0-based i < N with i + 1 not in R, has
\* N - |R \cap 1..N| entries, and numbers of R outside 1..N remove nothing (every
\* entry is a page index of the source, so the copy is never asked a page that
\* is not there).
KeepListIsComplement ==
  \A o \in OpIds :
    (ops[o].kind = "remove" /\ ops[o].pc \in {"copyPages", "save"}) =>
      LET N == CalledOn(ops[o]).pages
          R == ElementsOf(ops[o].pagesToRemove)
          keep == ops[o].toCopy
      IN /\ StrictlyIncreasing(keep)
         /\ ElementsOf(keep) = { i \in 0..(N - 1) : (i + 1) \notin R }
         /\ Len(keep) = N - Cardinality(R \cap (1..N))
         /\ ((R \cap (1..N) = {}) => (keep = [j \in 1..N |-> j - 1]))

KeepListWitness ==
  \E o \in OpIds :
    /\ ops[o].kind = "remove" /\ ops[o].pc = "save"
    /\ CalledOn(ops[o]).pages = 3
    /\ Includes(ops[o].pagesToRemove, OutOfRangePage)
    /\ Includes(ops[o].pagesToRemove, DemoPage)
    /\ ops[o].toCopy = <<0, 2>>

\* C2: a successful mergePdfs publishes the pages of every source, source after
\* source in the order of the list it was called on, each source's pages in their
\* own order; the page count is the sum of the sources' page counts.
MergeConcatenates ==
  [][\A o \in OpIds :
       (ops[o].kind = "merge" /\ Succeeds(o)) =>
         /\ resultUrl'.pages = ConcatPages(ops[o].files)
         /\ Len(resultUrl'.pages) = SumPages(ops[o].files)]_vars

MergeWitness ==
  /\ ops[1].kind = "merge" /\ ops[1].pc = "success"
  /\ Len(files) = 2 /\ files[1].pages = 2 /\ files[2].pages = 1
  /\ resultUrl.pages = <<<<"a", 0>>, <<"a", 1>>, <<"b", 0>>>>

\* C3: resultUrl is written with a result only by an invocation whose last await
\* (the save, after every load and copy) resolved, and then with its complete
\* output; an invocation that fails leaves resultUrl and files alone and changes
\* only the message (to its error) and processing (to false).
NoPartialResult ==
  [][/\ (resultUrl' # resultUrl /\ resultUrl' # NULL) =>
          \E o \in OpIds :
            /\ Succeeds(o)
            /\ resultUrl' = CreateObjectURL(o, Expected(ops[o]))
     /\ \A o \in OpIds :
           Fails(o) =>
             /\ resultUrl' = resultUrl
             /\ files' = files
             /\ message' = ErrorMessage(ops[o].kind)
             /\ processing' = FALSE
             /\ \A p \in OpIds \ {o} : ops'[p] = ops[p]]_vars

NoPartialResultWitness ==
  \E o, p \in OpIds :
    /\ ops[o].pc = "failed"
    /\ ops[p].pc = "success"
    /\ o > p
    /\ resultUrl.op = p
    /\ message = ErrorMessage(ops[o].kind)

\* C4: an invocation sets processing when it starts, eventually ends, and ends in
\* exactly one of success (resultUrl is its result, the message its success
\* message) and failure (the message its error message); either way the ending
\* step sets processing to false.
OperationLifecycle ==
  /\ \A o \in OpIds : InFlight(o) ~> (ops[o].pc \in {"success", "failed"})
  /\ [][\A o \in OpIds :
          /\ Starts(o) => (processing' /\ InFlight(o)')
          /\ (InFlight(o) /\ ~InFlight(o)') =>
               /\ processing' = FALSE
               /\ \/ /\ ops'[o].pc = "success"
                     /\ resultUrl' = CreateObjectURL(o, ops[o].doc)
                     /\ message' = SuccessMessage(ops[o].kind)
                  \/ /\ ops'[o].pc = "failed"
                     /\ resultUrl' = resultUrl
                     /\ message' = ErrorMessage(ops[o].kind)
          /\ (ops[o].pc \in {"success", "failed"}) => ops'[o] = ops[o]]_vars

LifecycleWitness ==
  /\ ops[1].pc = "success"
  /\ ops[2].pc = "failed"
  /\ ~processing

\* C5: at most one of mergePdfs, removePagesFromPdf and compressPdf is in flight.
AtMostOneInFlight == Cardinality({ o \in OpIds : InFlight(o) }) <= 1

LastWriteWins ==
  [][/\ \A o \in OpIds : Succeeds(o) => resultUrl' = CreateObjectURL(o, ops[o].doc)
     /\ (resultUrl' # resultUrl /\ resultUrl' # NULL) => \E o \in OpIds : Succeeds(o)]_vars

\* Both invocations succeeded and the one started first completed last.
LastWriteWinsWitness ==
  /\ ops[1].pc = "success"
  /\ ops[2].pc = "success"
  /\ resultUrl.op = 1

\* C9: an invocation reads the list it was called on: the list is fixed at the
\* start, file events leave the invocation as it is, the invocation never changes
\* the pending list, and its result is the one that list determines.
SnapshotIsolation ==
  [][\A o \in OpIds :
       /\ Starts(o) => ops'[o].files = files
       /\ (InFlight(o) /\ files' # files) => ops'[o] = ops[o]
       /\ (InFlight(o) /\ ops'[o] # ops[o]) => files' = files
       /\ (ops[o].kind = "merge" /\ InFlight(o) /\ InFlight(o)') =>
            ops'[o].files = ops[o].files
       /\ (ops[o].kind # "merge" /\ InFlight(o) /\ InFlight(o)') =>
            CalledOn(ops'[o]) = CalledOn(ops[o])
       /\ (ops'[o].pc = "save") => ops'[o].doc = Expected(ops'[o])
       /\ Succeeds(o) => resultUrl' = CreateObjectURL(o, Expected(ops[o]))]_vars

\* A merge of two files about to complete after the pending list was emptied.
SnapshotWitness ==
  \E o \in OpIds :
    /\ ops[o].kind = "merge" /\ ops[o].pc = "save"
    /\ Len(ops[o].files) = 2
    /\ files = <<>>
    /\ ops[o].doc = ConcatPages(ops[o].files)

\* C10: while an invocation is in flight, processing is true.
ProcessingWhileInFlight == (\E o \in OpIds : InFlight(o)) => processing

====
